---- MODULE Spec2Model ----
(***************************************************************************)
(* Model of ArduinoWaterSampler.ino (the sketch of lines 1-321): the pump  *)
(* sequencer, its configuration held in Properties/EEPROM, and the button  *)
(* editor.  Time is counted in minutes, the unit of the stored values.     *)
(* The Timer object is the bag of pending single-shot callbacks that       *)
(* timer.after registered; loop() calls timer.update(), which fires every  *)
(* callback that is due, and only then ButtonEvent.loop(), which delivers  *)
(* a button or float switch event.  Callbacks due at the same minute fire  *)
(* in any order.  A callback is a bare function pointer: the generation    *)
(* recorded with it is history, read by no action.                         *)
(***************************************************************************)
EXTENDS Integers, FiniteSets, Sequences, Bags, TLC

\* ----------------------------------------------------------------- bounds
\* minutes of simulated time
MaxTime == 3
\* minutes of simulated time of the basic sequence
BasicTime == 7
\* calls of setupPumps (arming and commits)
MaxGen == 2
\* calls of modify
MaxEdits == 1
\* calls of modify in an editing session
SessionEdits == 2
\* power cycles
MaxBoots == 1

\* ------------------------------------------------------ program constants
NPUMPS == 6
RUNTIME == 6
NCURSOR == 14
INT_MAX == 32767
INT_RANGE == 65536

Pumps == 0 .. (NPUMPS - 1)
Entries == 0 .. RUNTIME

\* configurations found in EEPROM at power-up: the six offsets, then the
\* runtime, all non-negative
StoredConfigs ==
    { << 0, 0, 0, 0, 0, 0, 1 >>, << 1, 0, 0, 0, 0, 0, 1 >> }

\* configurations at the start of an editing session: the second holds an
\* offset that one more hold of the up button takes past INT_MAX
SessionConfigs ==
    { << 0, 0, 0, 0, 0, 0, 1 >>, << 32700, 0, 0, 0, 0, 0, 1 >> }

\* the configuration of the basic sequence
BasicConfig == << 0, 1, 2, 3, 4, 5, 1 >>

Cfg(q) == [i \in Entries |-> q[i + 1]]

VARIABLES
    running,        \* boolean running
    reqRestart,     \* boolean reqRestart
    cursorPos,      \* int cursorPos
    initPumpNo,     \* int initPumpNo
    currentPumpNo,  \* int currentPumpNo
    pumpActive,     \* boolean pumpActive[6]
    pumpPin,        \* level of the outputs PUMP_PINS[0..5]
    props,          \* Properties: the values in memory
    eeprom,         \* Properties: the values saved to EEPROM
    timers,         \* Timer: the pending single-shot callbacks
    now,            \* minutes since boot
    water,          \* position of the float switch
    gen,            \* history: calls of setupPumps since boot
    commits,        \* history: calls of saveAndRestart since boot
    edits,          \* history: calls of modify
    armTime,        \* history: minute at which underWater armed the sequence, -1 before
    offBy,          \* history: for an active pump, the minute of its start plus the
                    \* runtime read at that start; 0 for an inactive pump
    chatter,        \* history: the last step was underWater finding running set
    boots           \* history: power cycles so far

vars == << running, reqRestart, cursorPos, initPumpNo, currentPumpNo, pumpActive,
           pumpPin, props, eeprom, timers, now, water, gen, commits, edits,
           armTime, offBy, chatter, boots >>

sequencer == << running, initPumpNo, currentPumpNo, pumpActive, pumpPin, timers, gen,
                armTime, offBy >>
config == << props, eeprom, edits, boots >>
editor == << cursorPos, reqRestart, commits >>

\* ------------------------------------------------------------- helpers
Max(a, b) == IF a > b THEN a ELSE b

\* a 16-bit int after an addition
Int16(x) == ((x + INT_MAX + 1) % INT_RANGE) - (INT_MAX + 1)

AllOff == [i \in Pumps |-> FALSE]

\* the history offBy follows the flags: kept for an active pump, 0 otherwise
Track(pa, ob) == [i \in Pumps |-> IF pa[i] THEN ob[i] ELSE 0]

Due(t) == t.due <= now

\* loop(), lines 115-116: timer.update() has fired what was due before
\* ButtonEvent.loop() delivers an event
NoneDue == \A t \in BagToSet(timers) : ~Due(t)

\* ---------------------------------------------------------------- boot
\* the globals of lines 79-86, and setup(): Properties.load()
Boot(stored) ==
    /\ running = FALSE
    /\ reqRestart = FALSE
    /\ cursorPos = 0
    /\ initPumpNo = 0
    /\ currentPumpNo = 0
    /\ pumpActive = AllOff
    /\ pumpPin = AllOff
    /\ eeprom = stored
    /\ props = eeprom
    /\ timers = EmptyBag
    /\ now = 0
    /\ water = FALSE
    /\ gen = 0
    /\ commits = 0
    /\ edits = 0
    /\ armTime = -1
    /\ offBy = [i \in Pumps |-> 0]
    /\ chatter = FALSE
    /\ boots = 0

Init == \E q \in StoredConfigs : Boot(Cfg(q))

InitBasic == Boot(Cfg(BasicConfig))

InitSession == \E q \in SessionConfigs : Boot(Cfg(q))

\* ------------------------------------------------------------ sequencer
\* mutant of setupPumps: every start callback registered with no delay
setupPumpsAtOnce(tm) ==
    tm (+) [t \in { [cb |-> "start", due |-> now, gen |-> gen + 1] } |-> NPUMPS]

\* setupPumps: the six timer.after(Properties.getInt(i) * MIN2MILLI, startPump)
RECURSIVE setupPumpsFrom(_, _)
setupPumpsFrom(tm, i) ==
    IF i >= NPUMPS THEN tm
    ELSE setupPumpsFrom(tm (+) SetToBag({ [cb |-> "start", due |-> now + props[i], gen |-> gen + 1] }),
                        i + 1)

\* mutant of setupPumps: the pending callbacks dropped before the six new ones
setupPumpsFresh(tm) == setupPumpsFrom(EmptyBag, 0)

setupPumps(tm) == setupPumpsFrom(tm, 0)

\* the six callbacks of one call of setupPumps with the values p, as a bag:
\* as many start callbacks due at a minute as there are offsets of that value
startCallbacks(p) ==
    LET dues == { now + p[i] : i \in Pumps }
    IN  [t \in { [cb |-> "start", due |-> d, gen |-> gen + 1] : d \in dues } |->
            Cardinality({ i \in Pumps : now + p[i] = t.due })]

\* stopPump(int): pumpActive[pumpNo] = false; an index outside 0..5 addresses
\* none of the six flags
stopPump(pa, pumpNo) ==
    IF pumpNo \in Pumps THEN [pa EXCEPT ![pumpNo] = FALSE] ELSE pa

\* startPump(int), line 129: pumpActive[pumpNo] = true
setActive(pa, pumpNo) ==
    IF pumpNo \in Pumps THEN [pa EXCEPT ![pumpNo] = TRUE] ELSE pa

\* mutant of stopOthers: the loop of lines 138-142 left out
stopOthersSkipped(pa, pumpNo) == pa

\* startPump(int), lines 138-142: stopPump(i) for every i != pumpNo
stopOthers(pa, pumpNo) ==
    [i \in Pumps |-> IF i # pumpNo THEN stopPump(pa, i)[i] ELSE pa[i]]

\* mutant of startPumpInt: the test of running left out
startPumpUnguarded(pa, pumpNo) == stopOthers(setActive(pa, pumpNo), pumpNo)

\* startPump(int), lines 127-143, on the flags (and on the outputs alike)
startPumpInt(pa, pumpNo) ==
    IF running THEN stopOthers(setActive(pa, pumpNo), pumpNo) ELSE pa

\* startPump(int), line 130: timer.after(Properties.getInt(6)*MIN2MILLI, stopPump)
runtimeTimer(t) ==
    IF running
    THEN SetToBag({ [cb |-> "stop", due |-> now + props[RUNTIME], gen |-> t.gen] })
    ELSE EmptyBag

\* timer.update() finds a start callback due: startPump()
StartDue(t) ==
    /\ t.cb = "start"
    /\ Due(t)
    /\ pumpActive' = startPumpInt(pumpActive, initPumpNo)
    /\ pumpPin' = startPumpInt(pumpPin, initPumpNo)
    /\ timers' = (timers (-) SetToBag({t})) (+) runtimeTimer(t)
    /\ initPumpNo' = initPumpNo + 1
    /\ offBy' = Track(pumpActive', [offBy EXCEPT ![initPumpNo] = now + props[RUNTIME]])
    /\ chatter' = FALSE
    /\ UNCHANGED << running, currentPumpNo, gen, armTime, now, water >>
    /\ UNCHANGED << config, editor >>

\* timer.update() finds a stop callback due: stopPump()
StopDue(t) ==
    /\ t.cb = "stop"
    /\ Due(t)
    /\ pumpActive' = stopPump(pumpActive, currentPumpNo)
    /\ pumpPin' = stopPump(pumpPin, currentPumpNo)
    /\ timers' = timers (-) SetToBag({t})
    /\ currentPumpNo' = currentPumpNo + 1
    /\ offBy' = Track(pumpActive', offBy)
    /\ chatter' = FALSE
    /\ UNCHANGED << running, initPumpNo, gen, armTime, now, water >>
    /\ UNCHANGED << config, editor >>

\* mutant of mustArm: the test of running left out
mustArmAlways(r) == TRUE

\* underWater, line 191: if (!running)
mustArm(r) == ~r

\* the float switch closes: underWater
UnderWater ==
    /\ NoneDue
    /\ ~water
    /\ water' = TRUE
    /\ chatter' = running
    /\ IF mustArm(running)
       THEN /\ gen < MaxGen
            /\ running' = TRUE
            /\ timers' = setupPumps(timers)
            /\ initPumpNo' = 0
            /\ gen' = gen + 1
            /\ armTime' = now
       ELSE UNCHANGED << running, timers, initPumpNo, gen, armTime >>
    /\ UNCHANGED << currentPumpNo, pumpActive, pumpPin, offBy, now >>
    /\ UNCHANGED << config, editor >>

\* mutant of OverWater: the halt of lines 179-183, which the sketch comments out
OverWaterHalts ==
    /\ NoneDue
    /\ water
    /\ water' = FALSE
    /\ chatter' = FALSE
    /\ running' = FALSE
    /\ pumpActive' = AllOff
    /\ pumpPin' = AllOff
    /\ offBy' = [i \in Pumps |-> 0]
    /\ currentPumpNo' = 0
    /\ UNCHANGED << initPumpNo, timers, gen, armTime, config, editor, now >>

\* the float switch opens: overWater
OverWater ==
    /\ NoneDue
    /\ water
    /\ water' = FALSE
    /\ chatter' = FALSE
    /\ UNCHANGED << sequencer, config, editor, now >>

\* --------------------------------------------------------------- editor
\* incrementCursor, line 275
nextCursor(c) == (c + 1) % NCURSOR

\* mutant of prevCursor: the max(..., 0) left out
prevCursorUnbounded(c) == c - 2

\* decrementCursor, line 280
prevCursor(c) == Max(c - 2, 0)

\* mutant of restartDue: the test of reqRestart left out
restartDueOnWrap(c, req) == (c = 0)

\* incrementCursor, line 276: the condition of saveAndRestart()
restartDue(c, req) == (c = 0) /\ req

\* short press of the next button: incrementCursor
IncrementCursor ==
    /\ NoneDue
    /\ cursorPos' = nextCursor(cursorPos)
    /\ chatter' = FALSE
    /\ IF restartDue(cursorPos', reqRestart)
       THEN /\ gen < MaxGen
            /\ timers' = setupPumps(timers)
            /\ initPumpNo' = 0
            /\ gen' = gen + 1
            /\ commits' = commits + 1
       ELSE UNCHANGED << timers, initPumpNo, gen, commits >>
    /\ UNCHANGED << reqRestart, running, currentPumpNo, pumpActive, pumpPin, armTime, offBy >>
    /\ UNCHANGED << config, now, water >>

\* hold of the next button: decrementCursor
DecrementCursor ==
    /\ NoneDue
    /\ cursorPos' = prevCursor(cursorPos)
    /\ chatter' = FALSE
    /\ UNCHANGED << reqRestart, commits, sequencer, config, now, water >>

\* mutant of modified: the max(..., 0) left out
modifiedUnclamped(old, mins) == Int16(old + mins)

\* modify, line 203: the value Properties.set stores
modified(old, mins) == Max(Int16(old + mins), 0)

\* mutant of save: the write to EEPROM left out
saveSkipped(mem, ee) == ee

\* modify, line 204: Properties.save() writes the values in memory to EEPROM
save(mem, ee) == mem

\* modify(pump, mins), with Properties.save(); at most `limit` calls
modify(limit, pump, mins) ==
    /\ NoneDue
    /\ edits < limit
    /\ edits' = edits + 1
    /\ chatter' = FALSE
    /\ reqRestart' = TRUE
    /\ props' = [props EXCEPT ![pump] = modified(props[pump], mins)]
    /\ eeprom' = save(props', eeprom)
    /\ boots' = boots

\* changeVal, lines 285-289
smallInc(c) == IF c % 2 = 0 THEN 60 ELSE 1

\* bigChangeVal, lines 307-311
bigInc(c) == IF c % 2 = 0 THEN 540 ELSE 9

\* short press of the up (sign 1) or down (sign -1) button: changeVal
changeVal(limit, sign) ==
    /\ modify(limit, cursorPos \div 2, sign * smallInc(cursorPos))
    /\ UNCHANGED << cursorPos, commits, sequencer, now, water >>

\* hold of the up or down button: bigChangeVal
bigChangeVal(limit, sign) ==
    /\ modify(limit, cursorPos \div 2, sign * bigInc(cursorPos))
    /\ UNCHANGED << cursorPos, commits, sequencer, now, water >>

ChangeVal(sign) == changeVal(MaxEdits, sign)

BigChangeVal(sign) == bigChangeVal(MaxEdits, sign)

SessionChangeVal(sign) == changeVal(SessionEdits, sign)

SessionBigChangeVal(sign) == bigChangeVal(SessionEdits, sign)

\* ----------------------------------------------------------------- time
\* a minute passes; loop() has fired every callback that was due
TickTo(limit) ==
    /\ now < limit
    /\ NoneDue
    /\ now' = now + 1
    /\ chatter' = FALSE
    /\ UNCHANGED << sequencer, config, editor, water >>

Tick == TickTo(MaxTime)

\* power is cycled: the globals take their initial values (lines 79-86), the
\* Timer and the outputs start afresh, and setup() loads the values saved in
\* EEPROM; the counts of edits and of setupPumps calls run on
PowerCycle ==
    /\ boots < MaxBoots
    /\ boots' = boots + 1
    /\ running' = FALSE
    /\ reqRestart' = FALSE
    /\ cursorPos' = 0
    /\ initPumpNo' = 0
    /\ currentPumpNo' = 0
    /\ pumpActive' = AllOff
    /\ pumpPin' = AllOff
    /\ props' = eeprom
    /\ timers' = EmptyBag
    /\ water' = FALSE
    /\ chatter' = FALSE
    /\ armTime' = -1
    /\ offBy' = [i \in Pumps |-> 0]
    /\ UNCHANGED << eeprom, now, gen, commits, edits >>

TickBasic == TickTo(BasicTime)

Next ==
    \/ \E t \in BagToSet(timers) : StartDue(t)
    \/ \E t \in BagToSet(timers) : StopDue(t)
    \/ UnderWater
    \/ OverWater
    \/ IncrementCursor
    \/ DecrementCursor
    \/ \E sign \in {1, -1} : ChangeVal(sign)
    \/ \E sign \in {1, -1} : BigChangeVal(sign)
    \/ Tick

Spec == Init /\ [][Next]_vars

\* the basic sequence: the stored values are left as they are
NextBasic ==
    \/ \E t \in BagToSet(timers) : StartDue(t)
    \/ \E t \in BagToSet(timers) : StopDue(t)
    \/ UnderWater
    \/ OverWater
    \/ IncrementCursor
    \/ DecrementCursor
    \/ TickBasic

SpecBasic == InitBasic /\ [][NextBasic]_vars

\* an editing session on the bench: the float switch stays open and no
\* minute passes; the start callbacks of a commit that are due fire
NextSession ==
    \/ \E t \in BagToSet(timers) : StartDue(t)
    \/ IncrementCursor
    \/ DecrementCursor
    \/ \E sign \in {1, -1} : SessionChangeVal(sign)
    \/ \E sign \in {1, -1} : SessionBigChangeVal(sign)

SpecSession == InitSession /\ [][NextSession]_vars

\* an editing session during which power may be cycled
NextPower ==
    \/ NextSession
    \/ PowerCycle

SpecPower == InitSession /\ [][NextPower]_vars

\* ---------------------------------------------------------------- claims

\* C1: in every reachable state at most one of the six flags pumpActive[0..5]
\* is true.
C1_MutualExclusion == Cardinality({ i \in Pumps : pumpActive[i] }) <= 1

\* a start callback has switched pump 2 on and pump 1 off before any stop
\* callback fired
C1_Witness == pumpActive[1] /\ currentPumpNo = 0 /\ initPumpNo = 2

\* C2: after underWater armed the sequence at armTime (no value edited since
\* boot), a pump i that is active was switched on at armTime + offset[i].
C2_StartAtOwnOffset ==
    (running /\ edits = 0) =>
        \A i \in Pumps :
            pumpActive[i] => offBy[i] - props[RUNTIME] = armTime + props[i]

\* C3: an active pump was switched on at most `runtime` minutes ago, runtime
\* being the value read at its start.
C3_OffWithinRuntime == \A i \in Pumps : pumpActive[i] => now <= offBy[i]

\* C4: offsets 0..5 and runtime 1, armed at armTime, no edits: between the
\* minute boundaries exactly pump t is active at t = now - armTime in 0..5 and
\* none from 6 on; while the callbacks of minute t are firing, in whichever
\* order, only pump t-1 or pump t can be active.
C4_BasicSequence ==
    running =>
        LET t == now - armTime IN
        /\ \A i \in Pumps : pumpActive[i] => (i = t \/ (i = t - 1 /\ ~NoneDue))
        /\ (NoneDue /\ t < NPUMPS) => pumpActive[t]

\* the sixth pump has stopped, six minutes after arming
C4_Witness ==
    running /\ now = armTime + NPUMPS /\ NoneDue /\ currentPumpNo = NPUMPS

\* C5: a step registers six more start callbacks with the engine's running
\* flag unchanged (the rearm of saveAndRestart) if and only if it moves the
\* cursor from 13 to 0 while reqRestart is set.
C5_CommitOnWrap ==
    [][ (BagCardinality(timers') = BagCardinality(timers) + NPUMPS /\ running' = running)
        <=> (cursorPos = NCURSOR - 1 /\ cursorPos' = 0 /\ reqRestart) ]_vars

\* a commit has happened, and the cursor is back on 0
C5_Witness == commits = 1 /\ cursorPos = 0 /\ BagCardinality(timers) >= NPUMPS

\* C6: right after a commit reqRestart is false.
C6_FlagClearedByCommit == [][ (commits' = commits + 1) => ~reqRestart' ]_vars

\* C7: every step leaves the seven stored values >= 0, in memory and in
\* EEPROM; a value that went down, from a value that no increase takes past
\* INT_MAX, went down by 1, 9, 60 or 540, stopping at 0.
C7_NonNegative ==
    [][ \A e \in Entries :
            /\ props'[e] >= 0
            /\ eeprom'[e] >= 0
            /\ (props'[e] < props[e] /\ props[e] <= INT_MAX - 540) =>
                   \E d \in {1, 9, 60, 540} : props'[e] = Max(props[e] - d, 0) ]_vars

\* the runtime, 1 at boot, is 0 after a decrease at the runtime's hour digit
C7_Witness == edits = 1 /\ props[RUNTIME] = 0 /\ cursorPos = 2 * RUNTIME

C9_ArmedWaterPresentNoop ==
    [][ (running /\ ~water /\ water') =>
            UNCHANGED << running, pumpActive, pumpPin, initPumpNo, currentPumpNo, timers >> ]_vars

\* the float switch has just closed again on an armed engine with a pump
\* active and callbacks pending
C9_Witness ==
    chatter /\ water /\ timers # EmptyBag /\ \E i \in Pumps : pumpActive[i]

\* C10: the float switch opening changes neither running, nor the flags, nor
\* the outputs, nor the two counters, nor the stored values, nor the pending
\* callbacks.
C10_WaterAbsentNoop ==
    [][ (water /\ ~water') =>
            UNCHANGED << running, pumpActive, pumpPin, initPumpNo, currentPumpNo,
                         props, eeprom, timers >> ]_vars

\* the float switch has opened during the sequence, and pump 3 is active
C10_Witness == ~water /\ pumpActive[2] /\ timers # EmptyBag

\* C11: an up press at cursor 0 raises offset[0] by 60, so n presses raise it
\* by 60*n; a commit happens only on the advance from 13 to 0 and registers
\* exactly the six start callbacks of the values stored at that moment.
C11_EditThenCommit ==
    [][ /\ (cursorPos = 0 /\ SessionChangeVal(1)) => props'[0] = props[0] + 60
        /\ (commits' = commits + 1) =>
               /\ cursorPos = NCURSOR - 1 /\ cursorPos' = 0
               /\ timers' = timers (+) startCallbacks(props) ]_vars

C13_StaleHarmless ==
    [][ \A t \in BagToSet(timers) :
            (t.gen < gen /\ (StartDue(t) \/ StopDue(t))) =>
                UNCHANGED << pumpActive, pumpPin >> ]_vars

\* C14: right after underWater arms the engine, and right after a commit,
\* initPumpNo and currentPumpNo are both 0.
C14_CountersReset ==
    [][ (commits' = commits + 1 \/ (~running /\ running')) =>
            (initPumpNo' = 0 /\ currentPumpNo' = 0) ]_vars

\* C15: a start callback that fires while running is false changes no flag
\* and no output, and while running is false no pump is active and no output
\* is high.
C15_UnarmedStartNoop ==
    /\ [](~running => (pumpActive = AllOff /\ pumpPin = AllOff))
    /\ [][ (~running /\ \E t \in BagToSet(timers) : StartDue(t)) =>
                UNCHANGED << pumpActive, pumpPin >> ]_vars

\* a start callback of a commit has fired before any water was detected
C15_Witness == ~running /\ commits = 1 /\ initPumpNo >= 1 /\ armTime = -1

\* C16: an up (sign 1) or down (sign -1) event at cursor c sets entry c div 2
\* to max(old + d, 0), d being 60 or 1 on a press and 540 or 9 on a hold, sets
\* reqRestart, and leaves the other entries, the cursor, the flags, the
\* outputs, running, the counters and the pending callbacks unchanged.
C16_EditMapping ==
    [][ LET e == cursorPos \div 2
            even == (cursorPos % 2 = 0)
            Effect(d) ==
                /\ props' = [props EXCEPT ![e] = Max(props[e] + d, 0)]
                /\ reqRestart'
                /\ UNCHANGED << cursorPos, pumpActive, pumpPin, running,
                                initPumpNo, currentPumpNo, timers >>
        IN  \A sign \in {1, -1} :
                /\ SessionChangeVal(sign) =>
                       Effect(sign * (IF even THEN 60 ELSE 1))
                /\ SessionBigChangeVal(sign) =>
                       Effect(sign * (IF even THEN 540 ELSE 9)) ]_vars

\* C17: a commit leaves the flags, the outputs and running as they were and
\* adds the six start callbacks of the current values to the pending ones.
C17_CommitKeepsPumps ==
    [][ (commits' = commits + 1) =>
            /\ UNCHANGED << pumpActive, pumpPin, running >>
            /\ timers' = timers (+) startCallbacks(props) ]_vars

\* a commit has happened while a pump was active, and no start callback has
\* fired since
C17_Witness ==
    commits = 1 /\ cursorPos = 0 /\ initPumpNo = 0 /\ \E i \in Pumps : pumpActive[i]

\* C18: a start callback that indexes the arrays (running is set) finds
\* initPumpNo in 0..5, and a stop callback finds currentPumpNo in 0..5.
C18_IndexInBounds ==
    [][ \A t \in BagToSet(timers) :
            /\ (StartDue(t) /\ running) => initPumpNo \in Pumps
            /\ StopDue(t) => currentPumpNo \in Pumps ]_vars

\* C19: when no callback is pending, no pump is active.
C19_Quiescence == (timers = EmptyBag) => (pumpActive = AllOff)

\* C20: running, once set, stays set; the float switch closing while running
\* is set registers no callback; six callbacks are registered only by the
\* first arming or by a commit.
C20_ArmedMonotone ==
    [][ /\ running => running'
        /\ (running /\ ~water /\ water') =>
               BagCardinality(timers') = BagCardinality(timers)
        /\ (BagCardinality(timers') = BagCardinality(timers) + NPUMPS) =>
               (~running \/ commits' = commits + 1) ]_vars

\* the float switch has closed again after all six pumps finished, and no
\* callback is pending
C20_Witness ==
    running /\ chatter /\ timers = EmptyBag /\ initPumpNo = NPUMPS /\ currentPumpNo = NPUMPS

====
